---- MODULE Spec2Model ----
(***************************************************************************)
(* Model of the visual-regression comparator of 00_all_methods_together.py *)
(* and utils_image_recog.py: main() loads two images, runs the five        *)
(* comparators in sequence, appends one (method, score, passed, details)   *)
(* tuple per comparator to `results`, then picks `best` and builds the     *)
(* summary.  An image is modelled by its shape (width, height); what the   *)
(* external libraries (OpenCV, scikit-image, imagehash) compute from the   *)
(* pixel content is a nondeterministic input drawn from the library's      *)
(* documented range.  Float scores are exact rationals [n, d].             *)
(***************************************************************************)
EXTENDS Integers, Sequences, FiniteSets, TLC

VARIABLES pc, ref, scr, results, summary, error, files, call, ret, lib, printed,
          draws, flight

\* main's state; the arguments and the return value of one comparator called alone
mainVars == <<pc, ref, scr, results, summary, error, files>>
fnVars == <<call, ret>>
\* what the files hold and what the libraries compute from them; what earlier
\* invocations of main have printed; the RANSAC estimations the process has run
\* so far; the comparators that have returned and whose result main has not yet
\* appended
runVars == <<lib, printed, draws, flight>>
vars == <<pc, ref, scr, results, summary, error, files, call, ret, lib, printed,
          draws, flight>>

(***************************************************************************)
(* Bounds of the model.                                                    *)
(***************************************************************************)
MaxDim == 256
MaxGood == 40
MaxSide == 8
SimDen == 4
MapLen == 3

(***************************************************************************)
(* Rational arithmetic for the float scores.                               *)
(***************************************************************************)
Q(n, d) == [n |-> n, d |-> d]
QLeq(a, b) == a.n * b.d <= b.n * a.d
QLt(a, b) == a.n * b.d < b.n * a.d
QEq(a, b) == a.n * b.d = b.n * a.d
QMin(a, b) == IF QLeq(a, b) THEN a ELSE b
Max(a, b) == IF a >= b THEN a ELSE b
Min(a, b) == IF a <= b THEN a ELSE b

(***************************************************************************)
(* Program constants.                                                      *)
(***************************************************************************)
THRESHOLDS ==
    [ssim |-> Q(985, 1000), phash |-> Q(90, 100), template |-> Q(95, 100),
     orb_ratio |-> Q(35, 100), orb_min_inliers |-> 12]
HashBits == 64
MinKeypoints == 10
MinGood == 8
SsimWin == 7
OrbEdge == 31
DiffPath == "./artifacts/diff_ssim_sample_ref.png.png"
TemplatePath == "./artifacts/template_sample_ref.png.png"
Methods == <<"exact", "resize_ssim", "phash", "template", "orb">>

(***************************************************************************)
(* Images and the values the libraries can return.                         *)
(***************************************************************************)
Dims == {1, SsimWin, MaxDim}
Shapes == [w : Dims, h : Dims]
\* cv2.imread gives None for a file it cannot decode
Unreadable == <<>>
NoImage == <<>>
NoSummary == <<>>
NoError == [stage |-> "none", kind |-> "none"]
NoCall == [fn |-> "none"]
NoRet == <<>>
NoLib == <<>>
NoFlight == [m \in {} |-> <<>>]
EmptyDetails == [k \in {} |-> 0]

\* structural_similarity's scalar: mean SSIM, in [-1, 1]
SsimRaw == {Q(0 - 500, 1000), Q(0, 1), Q(984, 1000), Q(985, 1000), Q(253, 256), Q(1000, 1000)}
\* Hamming distance of two 64-bit hashes
HashDist == {0, 6, 7, HashBits}
\* maximum of TM_CCOEFF_NORMED, in [-1, 1]: a float32, so a dyadic rational
\* (243/256 < 0.95 < 244/256)
TmRaw == {Q(0 - 1, 1), Q(243, 256), Q(244, 256), Q(253, 256), Q(1, 1)}
\* keypoints ORB detects in an image (none within edgeThreshold = 31 of the
\* border, so none at all in an image no larger than twice that); good matches
\* after the ratio test
KpCounts == {0, MinKeypoints - 1, MinKeypoints, MaxGood}
KpOf(img) == IF Min(img.w, img.h) <= 2 * OrbEdge THEN {0} ELSE KpCounts
\* detectAndCompute builds an 8-level pyramid with scale factor 1.2; the levels
\* of a side of 1 pixel round to 0 from the fifth on (1 / 1.2^4 < 0.5; a side of
\* 2 keeps 1 pixel at the last level), an empty size cv2.resize rejects.
\* Whether the call then raises depends on the OpenCV build, so both outcomes
\* are admitted for such an image.
OrbFault(img) == Min(img.w, img.h) < 2
GoodCounts == {0, MinGood - 1, MinGood, 20, MaxGood}
\* RANSAC inliers of a found homography: at least its 4-point sample
InlierCounts(good) == {i \in {4, 7, 12, 14, good} : 4 <= i /\ i <= good}

(***************************************************************************)
(* utils_image_recog.py                                                    *)
(***************************************************************************)
\* imread_any: the decoded image, or FileNotFoundError when cv2.imread gives None
imread_any(file) == IF file = Unreadable THEN [ok |-> FALSE, img |-> NoImage]
                    ELSE [ok |-> TRUE, img |-> file]

\* cv2.resize raises on an empty destination size
ResizeOk(new_w, new_h) == new_w > 0 /\ new_h > 0

\* The double products a * (m / d) that fall one ulp below their exact integer
\* value a * m / d, among those the sides of the model can form (1 .. 9, 15, 22,
\* 49 and 1, 7, 256, 257): 22 * (15 / 22) = 14.999999999999998 and
\* 49 * (1 / 49) = 0.9999999999999999.  Every other product is exact or lies
\* well inside the open interval between two integers.
RoundsBelow == {<<22, Q(15, 22)>>, <<49, Q(1, 49)>>, <<49, Q(2, 49)>>,
                <<49, Q(4, 49)>>, <<49, Q(8, 49)>>}

\* int(a * scale) for a double scale < 1
FloatInt(a, scale) ==
    IF \E t \in RoundsBelow : t[1] = a /\ QEq(t[2], scale)
    THEN (a * scale.n) \div scale.d - 1
    ELSE (a * scale.n) \div scale.d

\* Mutant of resize_keep_aspect: the scale >= 1.0 test is missing, so a small
\* image is scaled up to the bounds
resize_keep_aspect_Upscales(img, max_w, max_h) ==
    LET w == img.w
        h == img.h
        scale == QMin(Q(max_w, w), Q(max_h, h))
        new_w == (w * scale.n) \div scale.d
        new_h == (h * scale.n) \div scale.d
    IN  [ok |-> ResizeOk(new_w, new_h), img |-> [w |-> new_w, h |-> new_h],
         fresh |-> TRUE]

\* resize_keep_aspect: scale = min(max_w / w, max_h / h); a copy when scale >= 1,
\* else the image resized to (int(w * scale), int(h * scale)); fresh: the
\* array returned is a new one (img.copy(), cv2.resize), not the argument
resize_keep_aspect(img, max_w, max_h) ==
    LET w == img.w
        h == img.h
        scale == QMin(Q(max_w, w), Q(max_h, h))
    IN  IF QLeq(Q(1, 1), scale) THEN [ok |-> TRUE, img |-> img, fresh |-> TRUE]
        ELSE LET new_w == FloatInt(w, scale)
                 new_h == FloatInt(h, scale)
             IN  [ok |-> ResizeOk(new_w, new_h), img |-> [w |-> new_w, h |-> new_h],
                  fresh |-> TRUE]

(***************************************************************************)
(* 00_all_methods_together.py: the comparators                             *)
(***************************************************************************)
\* Mutant of cmp_exact_after_resize: the score does not follow the comparison
cmp_exact_after_resize_ScoreOne(equal) == [passed |-> equal, score |-> Q(1, 1)]

\* cmp_exact_after_resize: (equal, 1.0 if equal else 0.0)
cmp_exact_after_resize(equal) ==
    [passed |-> equal, score |-> IF equal THEN Q(1, 1) ELSE Q(0, 1)]

\* structural_similarity raises ValueError when win_size exceeds a side
SsimFault(img) == Min(img.w, img.h) < SsimWin

\* cmp_ssim_after_resize: float(score) of structural_similarity, unchanged
cmp_ssim_after_resize(raw) == raw

\* The similarity map `full` of structural_similarity, as the sequence of its
\* samples in units of 1 / SimDen (each in [-1, 1]); diff = 1.0 - full
DiffOf(full) == [i \in 1 .. Len(full) |-> SimDen - full[i]]
MinOf(f) == CHOOSE x \in {f[i] : i \in 1 .. Len(f)} : \A i \in 1 .. Len(f) : x <= f[i]
MaxOf(f) == CHOOSE x \in {f[i] : i \in 1 .. Len(f)} : \A i \in 1 .. Len(f) : x >= f[i]

\* (255 * (d - lo) / (hi - lo + 1e-12)).astype(np.uint8) for float64 d, lo, hi
\* on the grid: the largest k with 255 * (d - lo) >= k * (hi - lo) + k * 1e-12.
\* 1e-12 is far below the grid and far above the rounding of a double, so the
\* two sides are compared by their grid parts first and by the multiples of
\* 1e-12 (0 against k) second.
Rescale(d, lo, hi) ==
    CHOOSE k \in 0 .. 255 :
        /\ 255 * (d - lo) > k * (hi - lo) \/ (255 * (d - lo) = k * (hi - lo) /\ 0 >= k)
        /\ ~(255 * (d - lo) > (k + 1) * (hi - lo))

\* cmp_ssim_after_resize from structural_similarity's (score, full) to its
\* return value (float(score), diff_norm)
cmp_ssim_full(raw, full) ==
    LET diff == DiffOf(full)
    IN  [score |-> cmp_ssim_after_resize(raw),
         diff_norm |-> [i \in 1 .. Len(diff) |-> Rescale(diff[i], MinOf(diff), MaxOf(diff))]]

\* Mutant of cmp_phash: the distance share is returned, not its complement
cmp_phash_Distance(dist) == Q(dist, HashBits)

\* cmp_phash: 1.0 - (hash difference / 64.0)
cmp_phash(dist) == Q(HashBits - dist, HashBits)

\* cmp_template: the template matched is ref_bgr itself, or its downscaled
\* copy when it exceeds scr
TemplateOf(r, s) ==
    IF r.w > s.w \/ r.h > s.h THEN resize_keep_aspect(r, s.w, s.h)
    ELSE [ok |-> TRUE, img |-> r, fresh |-> FALSE]

\* minMaxLoc's max_loc: an offset of the template inside scr (the extreme ones)
MaxLocs(r, s) == {0, s.w - r.w} \X {0, s.h - r.h}

cmp_template(tmpl, max_val, max_loc) ==
    [score |-> max_val, tl |-> max_loc,
     br |-> <<max_loc[1] + tmpl.w, max_loc[2] + tmpl.h>>]

\* the offsets minMaxLoc can report for the pair (none when cmp_template raises)
LocAnswers(r, s) ==
    LET t == TemplateOf(r, s)
    IN  IF t.ok THEN MaxLocs(t.img, s) ELSE {<<0, 0>>}

\* Mutant of cmp_template_full: w_r, h_r are not updated after the downscale
cmp_template_full_OriginalSize(r, s, max_val, max_loc) ==
    LET t == TemplateOf(r, s)
    IN  IF ~t.ok THEN t
        ELSE [ok |-> TRUE, img |-> t.img, fresh |-> t.fresh, score |-> max_val,
              tl |-> max_loc, br |-> <<max_loc[1] + r.w, max_loc[2] + r.h>>]

\* cmp_template from its arguments to its return value (ok FALSE: it raises);
\* img is the template handed to cv2.matchTemplate
cmp_template_full(r, s, max_val, max_loc) ==
    LET t == TemplateOf(r, s)
    IN  IF ~t.ok THEN t
        ELSE LET c == cmp_template(t.img, max_val, max_loc)
             IN  [ok |-> TRUE, img |-> t.img, fresh |-> t.fresh, score |-> c.score,
                  tl |-> c.tl, br |-> c.br]

\* the library calls cmp_orb has made when it leaves at each exit
CallsDetect == {"detectAndCompute"}
CallsMatch == {"detectAndCompute", "knnMatch"}
CallsHomography == {"detectAndCompute", "knnMatch", "findHomography"}

\* Mutant of cmp_orb: only the descriptors are tested, not len(kp) < 10
cmp_orb_NoKpCheck(kp1, kp2, good, hFound, inl) ==
    IF kp1 = 0 \/ kp2 = 0
    THEN [ratio |-> Q(0, 1), inliers |-> 0, total |-> 0, calls |-> CallsDetect]
    ELSE IF good < MinGood
    THEN [ratio |-> Q(0, 1), inliers |-> 0, total |-> good, calls |-> CallsMatch]
    ELSE IF ~hFound
    THEN [ratio |-> Q(0, 1), inliers |-> 0, total |-> good, calls |-> CallsHomography]
    ELSE [ratio |-> Q(inl, Max(1, good)), inliers |-> inl, total |-> good,
          calls |-> CallsHomography]

\* Mutant of cmp_orb: the exits after matching return (0.0, 0, 0)
cmp_orb_ZeroTotal(kp1, kp2, good, hFound, inl) ==
    IF kp1 = 0 \/ kp2 = 0 \/ kp1 < MinKeypoints \/ kp2 < MinKeypoints
    THEN [ratio |-> Q(0, 1), inliers |-> 0, total |-> 0, calls |-> CallsDetect]
    ELSE IF good < MinGood
    THEN [ratio |-> Q(0, 1), inliers |-> 0, total |-> 0, calls |-> CallsMatch]
    ELSE IF ~hFound
    THEN [ratio |-> Q(0, 1), inliers |-> 0, total |-> 0, calls |-> CallsHomography]
    ELSE [ratio |-> Q(inl, Max(1, good)), inliers |-> inl, total |-> good,
          calls |-> CallsHomography]

\* Mutant of cmp_orb: the len(good) < 8 exit is missing
cmp_orb_NoMinGood(kp1, kp2, good, hFound, inl) ==
    IF kp1 = 0 \/ kp2 = 0 \/ kp1 < MinKeypoints \/ kp2 < MinKeypoints
    THEN [ratio |-> Q(0, 1), inliers |-> 0, total |-> 0, calls |-> CallsDetect]
    ELSE IF ~hFound
    THEN [ratio |-> Q(0, 1), inliers |-> 0, total |-> good, calls |-> CallsHomography]
    ELSE [ratio |-> Q(inl, Max(1, good)), inliers |-> inl, total |-> good,
          calls |-> CallsHomography]

\* cmp_orb: (ratio, inliers, len(good)) with its three short-circuit exits
\* (kp = 0 stands for des is None); calls: the library calls made on the way
cmp_orb(kp1, kp2, good, hFound, inl) ==
    IF kp1 = 0 \/ kp2 = 0 \/ kp1 < MinKeypoints \/ kp2 < MinKeypoints
    THEN [ratio |-> Q(0, 1), inliers |-> 0, total |-> 0, calls |-> CallsDetect]
    ELSE IF good < MinGood
    THEN [ratio |-> Q(0, 1), inliers |-> 0, total |-> good, calls |-> CallsMatch]
    ELSE IF ~hFound
    THEN [ratio |-> Q(0, 1), inliers |-> 0, total |-> good, calls |-> CallsHomography]
    ELSE [ratio |-> Q(inl, Max(1, good)), inliers |-> inl, total |-> good,
          calls |-> CallsHomography]

\* the RANSAC estimations a call of cmp_orb runs: one when it reaches
\* cv2.findHomography, none when it leaves earlier
Estimations(o) == IF "findHomography" \in o.calls THEN 1 ELSE 0

\* Mutant of SamplerAt: the sampler goes on from where the estimations before left it
SamplerAt_Continues(n) == n

\* cv2.findHomography(src, dst, cv2.RANSAC, 5.0): the position from which the
\* sampler of an estimation starts after n earlier estimations in the process.
\* The call is given no generator and the program sets no seed; OpenCV builds
\* the sampler inside the call, at the same position every time.
SamplerAt(n) == 0

\* what the estimation finds from that position: o.hFound and o.inl from the
\* start, o.later from anywhere else
Ransac(o, start) ==
    IF start = 0 THEN [hFound |-> o.hFound, inl |-> o.inl] ELSE o.later

(***************************************************************************)
(* 00_all_methods_together.py: main                                        *)
(***************************************************************************)
\* Mutant of Overlay: the rectangle is drawn on scr itself
Overlay_InPlace(s, tl, br) ==
    [vis |-> [w |-> s.w, h |-> s.h, rect |-> <<tl, br>>],
     scr |-> [w |-> s.w, h |-> s.h, rect |-> <<tl, br>>]]

\* vis = scr.copy(); cv2.rectangle(vis, tl, br, (0,255,0), 2): the image that is
\* written, and scr as the drawing leaves it
Overlay(s, tl, br) ==
    [vis |-> [w |-> s.w, h |-> s.h, rect |-> <<tl, br>>], scr |-> s]

Result(m, s, p, d) == [method |-> m, score |-> s, passed |-> p, details |-> d]

\* Mutant of ScorePassed: a strict comparison, so a score equal to the threshold fails
ScorePassed_Strict(score, threshold) == QLt(threshold, score)

\* score >= THRESHOLDS[key]
ScorePassed(score, threshold) == QLeq(threshold, score)

\* Mutant of OrbPassed: either condition is enough
OrbPassed_Either(ratio, inl, thr) ==
    QLeq(thr.orb_ratio, ratio) \/ inl >= thr.orb_min_inliers

\* Mutant of OrbPassed: the inlier minimum is not consulted
OrbPassed_RatioOnly(ratio, inl, thr) == QLeq(thr.orb_ratio, ratio)

\* ratio >= THRESHOLDS["orb_ratio"] and inl >= THRESHOLDS["orb_min_inliers"]
OrbPassed(ratio, inl, thr) ==
    QLeq(thr.orb_ratio, ratio) /\ inl >= thr.orb_min_inliers

ExactResult(equal) ==
    LET c == cmp_exact_after_resize(equal)
    IN  Result("exact", c.score, c.passed, EmptyDetails)

SsimResult(raw) ==
    LET s == cmp_ssim_after_resize(raw)
    IN  Result("resize_ssim", s, ScorePassed(s, THRESHOLDS.ssim), [diff |-> DiffPath])

\* Mutant of PhashResult: the tuple carries the preceding comparator's name
PhashResult_WrongName(dist) ==
    LET ph == cmp_phash(dist)
    IN  Result("resize_ssim", ph, ScorePassed(ph, THRESHOLDS.phash), EmptyDetails)

PhashResult(dist) ==
    LET ph == cmp_phash(dist)
    IN  Result("phash", ph, ScorePassed(ph, THRESHOLDS.phash), EmptyDetails)

TemplateResult(tmpl, max_val, max_loc) ==
    LET t == cmp_template(tmpl, max_val, max_loc)
    IN  Result("template", t.score, ScorePassed(t.score, THRESHOLDS.template),
               [match_vis |-> TemplatePath])

OrbResult(kp1, kp2, good, hFound, inl) ==
    LET o == cmp_orb(kp1, kp2, good, hFound, inl)
    IN  Result("orb", o.ratio, OrbPassed(o.ratio, o.inliers, THRESHOLDS),
               [inliers |-> o.inliers, total_good |-> o.total])

\* Mutant of order: the table has no entry for phash
order_NoPhash(m) ==
    CASE m = "resize_ssim" -> 0
      [] m = "exact" -> 1
      [] m = "template" -> 2
      [] m = "orb" -> 3
      [] OTHER -> 99

\* Mutant of order: template is ranked ahead of resize_ssim and exact
order_TemplateFirst(m) ==
    CASE m = "template" -> 0
      [] m = "resize_ssim" -> 1
      [] m = "exact" -> 2
      [] m = "orb" -> 3
      [] m = "phash" -> 4
      [] OTHER -> 99

\* order = {"resize_ssim":0,"exact":1,"template":2,"orb":3,"phash":4}; order.get(m, 99)
order(m) ==
    CASE m = "resize_ssim" -> 0
      [] m = "exact" -> 1
      [] m = "template" -> 2
      [] m = "orb" -> 3
      [] m = "phash" -> 4
      [] OTHER -> 99

\* Mutant of SortKeyLess: the key is (order rank, -score)
SortKeyLess_RankFirst(x, y) ==
    \/ order(x.method) < order(y.method)
    \/ order(x.method) = order(y.method) /\ QLt(y.score, x.score)

\* Mutant of SortKeyLess: the key is -score alone, ties left to list position
SortKeyLess_NoRank(x, y) == QLt(y.score, x.score)

\* Mutant of SortKeyLess: among equal scores the result with more details wins
SortKeyLess_Details(x, y) ==
    \/ QLt(y.score, x.score)
    \/ /\ QEq(x.score, y.score)
       /\ Cardinality(DOMAIN x.details) > Cardinality(DOMAIN y.details)

\* key(x) < key(y) for key = (-score, order rank)
SortKeyLess(x, y) ==
    \/ QLt(y.score, x.score)
    \/ QEq(x.score, y.score) /\ order(x.method) < order(y.method)

\* sorted(): stable, ascending by key
Insert(x, s) ==
    LET k == Cardinality({i \in 1 .. Len(s) : ~SortKeyLess(x, s[i])})
    IN  SubSeq(s, 1, k) \o <<x>> \o SubSeq(s, k + 1, Len(s))

RECURSIVE Sorted(_)
Sorted(s) ==
    IF s = <<>> THEN <<>>
    ELSE Insert(s[Len(s)], Sorted(SubSeq(s, 1, Len(s) - 1)))

\* passed = [r for r in results if r[2]]
Passed(rs) == SelectSeq(rs, LAMBDA r : r.passed)

\* Mutant of Pool: every result is a candidate
Pool_All(rs) == rs

\* Mutant of Pool: only passing results are candidates
Pool_PassedOnly(rs) == Passed(rs)

\* pool = passed if passed else results
Pool(rs) == IF Passed(rs) # <<>> THEN Passed(rs) ELSE rs

\* Mutant of BuildSummary: best is rebuilt without its details
BuildSummary_NoDetails(rs, best) ==
    [per_method |-> [i \in 1 .. Len(rs) |->
                        [method |-> rs[i].method, score |-> rs[i].score,
                         passed |-> rs[i].passed, details |-> rs[i].details]],
     best |-> [method |-> best.method, score |-> best.score,
               passed |-> best.passed, details |-> EmptyDetails],
     thresholds |-> THRESHOLDS]

\* summary = {"per_method": [...], "best": {...}, "thresholds": THRESHOLDS}
BuildSummary(rs, best) ==
    [per_method |-> [i \in 1 .. Len(rs) |->
                        [method |-> rs[i].method, score |-> rs[i].score,
                         passed |-> rs[i].passed, details |-> rs[i].details]],
     best |-> [method |-> best.method, score |-> best.score,
               passed |-> best.passed, details |-> best.details],
     thresholds |-> THRESHOLDS]

\* ratio, inl, total = cmp_orb(ref, scr) and the passed flag main derives from
\* them under the thresholds thr
OrbVerdict(kp1, kp2, good, hFound, inl, thr) ==
    LET o == cmp_orb(kp1, kp2, good, hFound, inl)
    IN  [ratio |-> o.ratio, inliers |-> o.inliers, total |-> o.total, calls |-> o.calls,
         passed |-> OrbPassed(o.ratio, o.inliers, thr)]

(***************************************************************************)
(* The state machine: one action per step of main.                         *)
(***************************************************************************)
Init ==
    /\ pc = "load"
    /\ ref = NoImage
    /\ scr = NoImage
    /\ results = <<>>
    /\ summary = NoSummary
    /\ error = NoError
    /\ files = {}
    /\ call = NoCall
    /\ ret = NoRet
    /\ lib = NoLib
    /\ printed = <<>>
    /\ draws = 0
    /\ flight = NoFlight

Raise(stage, kind) ==
    /\ pc' = "failed"
    /\ error' = [stage |-> stage, kind |-> kind]

\* ref = imread_any(REF_PATH); scr = imread_any(SCREENSHOT_PATH)
Load ==
    /\ pc = "load"
    /\ \E fr \in Shapes \cup {Unreadable}, fs \in Shapes \cup {Unreadable} :
          LET r == imread_any(fr)
              s == imread_any(fs)
          IN  IF ~r.ok
              THEN Raise("load", "FileNotFoundError") /\ UNCHANGED <<ref, scr>>
              ELSE IF ~s.ok
              THEN Raise("load", "FileNotFoundError") /\ ref' = r.img /\ UNCHANGED scr
              ELSE /\ ref' = r.img
                   /\ scr' = s.img
                   /\ pc' = "exact"
                   /\ UNCHANGED error
    /\ UNCHANGED <<results, summary, files>>
    /\ UNCHANGED fnVars
    /\ UNCHANGED runVars

Exact ==
    /\ pc = "exact"
    /\ \E equal \in BOOLEAN :
          results' = Append(results, ExactResult(equal))
    /\ pc' = "ssim"
    /\ UNCHANGED <<ref, scr, summary, error, files>>
    /\ UNCHANGED fnVars
    /\ UNCHANGED runVars

Ssim ==
    /\ pc = "ssim"
    /\ IF SsimFault(scr)
       THEN Raise("resize_ssim", "ValueError") /\ UNCHANGED <<results, files>>
       ELSE /\ \E raw \in SsimRaw : results' = Append(results, SsimResult(raw))
            /\ files' = files \cup {DiffPath}
            /\ pc' = "phash"
            /\ UNCHANGED error
    /\ UNCHANGED <<ref, scr, summary>>
    /\ UNCHANGED fnVars
    /\ UNCHANGED runVars

Phash ==
    /\ pc = "phash"
    /\ \E dist \in HashDist : results' = Append(results, PhashResult(dist))
    /\ pc' = "template"
    /\ UNCHANGED <<ref, scr, summary, error, files>>
    /\ UNCHANGED fnVars
    /\ UNCHANGED runVars

Template ==
    /\ pc = "template"
    /\ LET t == TemplateOf(ref, scr)
       IN  IF ~t.ok
           THEN Raise("template", "cv2.error") /\ UNCHANGED <<results, files, scr>>
           ELSE /\ \E max_val \in TmRaw, max_loc \in MaxLocs(t.img, scr) :
                      LET c == cmp_template(t.img, max_val, max_loc)
                      IN  /\ results' = Append(results, TemplateResult(t.img, max_val, max_loc))
                          /\ scr' = Overlay(scr, c.tl, c.br).scr
                /\ files' = files \cup {TemplatePath}
                /\ pc' = "orb"
                /\ UNCHANGED error
    /\ UNCHANGED <<ref, summary>>
    /\ UNCHANGED fnVars
    /\ UNCHANGED runVars

Orb ==
    /\ pc = "orb"
    /\ \/ /\ OrbFault(ref) \/ OrbFault(scr)
          /\ Raise("orb", "cv2.error")
          /\ UNCHANGED <<results, draws>>
       \/ /\ \E kp1 \in KpOf(ref), kp2 \in KpOf(scr), hFound \in BOOLEAN :
               \E good \in {g \in GoodCounts : g <= kp1} :
                 \E inl \in (IF good >= MinGood /\ hFound THEN InlierCounts(good) ELSE {0}) :
                    /\ results' = Append(results, OrbResult(kp1, kp2, good, hFound, inl))
                    /\ draws' = draws + Estimations(cmp_orb(kp1, kp2, good, hFound, inl))
          /\ pc' = "pick"
          /\ UNCHANGED error
    /\ UNCHANGED <<ref, scr, summary, files>>
    /\ UNCHANGED fnVars
    /\ UNCHANGED <<lib, printed, flight>>

\* best = sorted(pool, key=...)[0]; summary = {...}; print(summary)
Pick ==
    /\ pc = "pick"
    /\ LET pool == Pool(results)
       IN  IF pool = <<>>
           THEN Raise("pick", "IndexError") /\ UNCHANGED <<summary, printed>>
           ELSE /\ summary' = BuildSummary(results, Sorted(pool)[1])
                /\ printed' = Append(printed, summary')
                /\ pc' = "done"
                /\ UNCHANGED error
    /\ UNCHANGED <<ref, scr, results, files, lib, draws, flight>>
    /\ UNCHANGED fnVars

Next == Load \/ Exact \/ Ssim \/ Phash \/ Template \/ Orb \/ Pick

Spec == Init /\ [][Next]_vars

(***************************************************************************)
(* The comparators called alone, on images with pixel content.             *)
(* A pixel image is [w, h, px] with px[<<x, y>>] the sample at column x,   *)
(* row y (the three channels are resized and compared alike, so one sample *)
(* stands for a pixel).                                                    *)
(***************************************************************************)
PixSides == {1, 2}
PixVals == {0, 4}
PixImages ==
    UNION {{[w |-> d[1], h |-> d[2], px |-> f] :
               f \in [(1 .. d[1]) \X (1 .. d[2]) -> PixVals]} :
           d \in PixSides \X PixSides}

\* the source columns (rows) that destination column (row) i covers when an
\* axis of length n is resized to length m, one length dividing the other
Covered(i, n, m) ==
    IF n >= m THEN ((i - 1) * (n \div m) + 1) .. (i * (n \div m))
    ELSE {((i - 1) \div (m \div n)) + 1}

RECURSIVE SumOver(_, _)
SumOver(f, S) ==
    IF S = {} THEN 0
    ELSE LET e == CHOOSE e \in S : TRUE IN f[e] + SumOver(f, S \ {e})

\* cv2.resize(img, (w, h), interpolation=cv2.INTER_AREA): a copy for the same
\* size, the mean of the covered block when shrinking by a whole factor, the
\* single source sample when an axis of one pixel is stretched
cv2_resize(img, w, h) ==
    IF w = img.w /\ h = img.h THEN img
    ELSE [w |-> w, h |-> h,
          px |-> [p \in (1 .. w) \X (1 .. h) |->
                    LET block == Covered(p[1], img.w, w) \X Covered(p[2], img.h, h)
                    IN  SumOver(img.px, block) \div Cardinality(block)]]

\* np.array_equal: same shape and same elements
array_equal(a, b) == a.w = b.w /\ a.h = b.h /\ a.px = b.px

\* Mutant of cmp_exact_pixels: the destination size is passed as (h, w)
cmp_exact_pixels_SwappedSize(ref_bgr, scr_bgr) ==
    cmp_exact_after_resize(
        array_equal(cv2_resize(ref_bgr, scr_bgr.h, scr_bgr.w), scr_bgr))

\* cmp_exact_after_resize on pixel content: ref resized to scr's size, then compared
cmp_exact_pixels(ref_bgr, scr_bgr) ==
    cmp_exact_after_resize(
        array_equal(cv2_resize(ref_bgr, scr_bgr.w, scr_bgr.h), scr_bgr))

\* 64-bit perceptual hashes, as the sets of their set bits: runs of low bits
\* and runs of high bits
Hashes == {1 .. k : k \in 0 .. HashBits} \cup {k .. HashBits : k \in 1 .. HashBits}

\* Mutant of HashDistance: only the bits set in the first hash alone are counted
HashDistance_OneSided(a, b) == Cardinality(a \ b)

\* ImageHash.__sub__: the number of positions where the two hashes differ
HashDistance(a, b) == Cardinality({i \in 1 .. HashBits : (i \in a) # (i \in b)})

(***************************************************************************)
(* The single-method scripts: compare_simple.py, 03_compare_sk_heatmap.py, *)
(* compare_rgb.py, compare_part_image.py.                                  *)
(***************************************************************************)
SSIM_THRESHOLD == Q(985, 1000)
PHASH_THRESHOLD == Q(90, 100)
TEMPLATE_THRESHOLD == Q(95, 100)

\* compare_simple.py: (equal, 1.0 if equal else 0.0) for ref resized to scr's size
compare_exact_after_resize(ref_bgr, scr_bgr) ==
    LET ref_r == cv2_resize(ref_bgr, scr_bgr.w, scr_bgr.h)
        equal == array_equal(ref_r, scr_bgr)
    IN  [passed |-> equal, score |-> IF equal THEN Q(1, 1) ELSE Q(0, 1)]

\* 03_compare_sk_heatmap.py: (float(score), diff_norm)
resize_ssim(raw, full) ==
    LET diff == [i \in 1 .. Len(full) |-> SimDen - full[i]]
    IN  [score |-> raw,
         diff_norm |-> [i \in 1 .. Len(diff) |-> Rescale(diff[i], MinOf(diff), MaxOf(diff))]]

\* compare_rgb.py: dist = ref_hash - scr_hash; 1.0 - (dist / 64.0)
phash_score(ref_hash, scr_hash) ==
    LET dist == HashDistance(ref_hash, scr_hash)
    IN  Q(64 - dist, 64)

\* Mutant of template_match: w_r, h_r are not updated after the downscale
template_match_OriginalSize(r, s, max_val, max_loc) ==
    IF r.w > s.w \/ r.h > s.h
    THEN LET t == resize_keep_aspect(r, s.w, s.h)
         IN  IF ~t.ok THEN [ok |-> FALSE]
             ELSE [ok |-> TRUE, score |-> max_val, top_left |-> max_loc,
                   bottom_right |-> <<max_loc[1] + r.w, max_loc[2] + r.h>>,
                   shape |-> <<t.img.h, t.img.w>>]
    ELSE [ok |-> TRUE, score |-> max_val, top_left |-> max_loc,
          bottom_right |-> <<max_loc[1] + r.w, max_loc[2] + r.h>>,
          shape |-> <<r.h, r.w>>]

\* compare_part_image.py: (float(max_val), top_left, bottom_right, ref.shape[:2]);
\* ok FALSE: resize_keep_aspect raises
template_match(r, s, max_val, max_loc) ==
    IF r.w > s.w \/ r.h > s.h
    THEN LET t == resize_keep_aspect(r, s.w, s.h)
         IN  IF ~t.ok THEN [ok |-> FALSE]
             ELSE [ok |-> TRUE, score |-> max_val, top_left |-> max_loc,
                   bottom_right |-> <<max_loc[1] + t.img.w, max_loc[2] + t.img.h>>,
                   shape |-> <<t.img.h, t.img.w>>]
    ELSE [ok |-> TRUE, score |-> max_val, top_left |-> max_loc,
          bottom_right |-> <<max_loc[1] + r.w, max_loc[2] + r.h>>,
          shape |-> <<r.h, r.w>>]

\* sides of the images resize_keep_aspect and cmp_template are called with
Sides == (1 .. MaxSide) \cup {15, 22, 49}
SideShapes == [w : Sides, h : Sides]

ExactCalls == {[fn |-> "exact", ref |-> r, scr |-> c] : r \in PixImages, c \in PixImages}
PhashCalls == {[fn |-> "phash", a |-> x, b |-> y] : x \in Hashes, y \in Hashes}
ResizeCalls ==
    {[fn |-> "resize", img |-> i, max_w |-> mw, max_h |-> mh] :
        i \in SideShapes \cup PixImages, mw \in Sides, mh \in Sides}
\* the calls of cmp_template on (r, c), with what matchTemplate and minMaxLoc give
TemplateCalls(r, c) ==
    {[fn |-> "template", ref |-> r, scr |-> c, max_val |-> v, max_loc |-> l] :
        v \in {Q(243, 256), Q(1, 1)}, l \in LocAnswers(r, c)}
SsimCalls ==
    {[fn |-> "ssim", raw |-> q, full |-> f] :
        q \in {Q(984, 1000), Q(1000, 1000)},
        f \in [1 .. MapLen -> (0 - SimDen) .. SimDen]}
\* good matches are a sublist of knnMatch's one match per reference descriptor
\* THRESHOLDS as edited in the CONFIG block: the two orb entries
ThresholdConfigs ==
    {[THRESHOLDS EXCEPT !.orb_ratio = q, !.orb_min_inliers = n] :
        q \in {Q(0, 1), Q(1, 100), Q(35, 100)}, n \in {0, 1, 12}}
OrbCalls(kp1, kp2, h, g) ==
    {[fn |-> "orb", kp1 |-> kp1, kp2 |-> kp2, good |-> g, hFound |-> h, inl |-> i,
      thr |-> t] :
        i \in (IF h /\ g >= 4 THEN 4 .. g ELSE {0}), t \in ThresholdConfigs}

FnInit ==
    /\ pc = "load"
    /\ ref = NoImage
    /\ scr = NoImage
    /\ results = <<>>
    /\ summary = NoSummary
    /\ error = NoError
    /\ files = {}
    /\ \/ call \in ExactCalls
       \/ call \in PhashCalls
       \/ call \in ResizeCalls
       \/ \E r \in SideShapes, c \in SideShapes : call \in TemplateCalls(r, c)
       \/ \E kp1 \in KpCounts, kp2 \in KpCounts, h \in BOOLEAN, g \in 0 .. MaxGood :
             g <= kp1 /\ call \in OrbCalls(kp1, kp2, h, g)
       \/ call \in SsimCalls
    /\ ret = NoRet
    /\ lib = NoLib
    /\ printed = <<>>
    /\ draws = 0
    /\ flight = NoFlight

ApplyExact ==
    /\ call.fn = "exact"
    /\ ret = NoRet
    /\ ret' = cmp_exact_pixels(call.ref, call.scr)
    /\ UNCHANGED <<call, mainVars, runVars>>

ApplyPhash ==
    /\ call.fn = "phash"
    /\ ret = NoRet
    /\ ret' = [dist |-> HashDistance(call.a, call.b),
               score |-> cmp_phash(HashDistance(call.a, call.b))]
    /\ UNCHANGED <<call, mainVars, runVars>>

ApplyResize ==
    /\ call.fn = "resize"
    /\ ret = NoRet
    /\ ret' = resize_keep_aspect(call.img, call.max_w, call.max_h)
    /\ UNCHANGED <<call, mainVars, runVars>>

ApplyTemplate ==
    /\ call.fn = "template"
    /\ ret = NoRet
    /\ ret' = cmp_template_full(call.ref, call.scr, call.max_val, call.max_loc)
    /\ UNCHANGED <<call, mainVars, runVars>>

ApplySsim ==
    /\ call.fn = "ssim"
    /\ ret = NoRet
    /\ ret' = cmp_ssim_full(call.raw, call.full)
    /\ UNCHANGED <<call, mainVars, runVars>>

ApplyOrb ==
    /\ call.fn = "orb"
    /\ ret = NoRet
    /\ ret' = OrbVerdict(call.kp1, call.kp2, call.good, call.hFound, call.inl, call.thr)
    /\ draws' = draws + Estimations(ret')
    /\ UNCHANGED <<call, mainVars, lib, printed, flight>>

FnNext ==
    ApplyExact \/ ApplyPhash \/ ApplyResize \/ ApplyTemplate \/ ApplyOrb \/ ApplySsim

FnSpec == FnInit /\ [][FnNext]_vars

(***************************************************************************)
(* main invoked on fixed files.  `lib` holds the two files and what the    *)
(* libraries compute from their content.  Every library call of the        *)
(* comparators is a function of the arrays it is given; the RANSAC         *)
(* estimation of cv2.findHomography is in addition a function of the       *)
(* position its sampler starts from.                                       *)
(***************************************************************************)
MaxRuns == 2

RunShapes == {[w |-> MaxDim, h |-> MaxDim], [w |-> SsimWin, h |-> MaxDim], [w |-> 1, h |-> 1]}

\* detectAndCompute, knnMatch with the ratio test, and findHomography with a
\* sampler at its start, on a pair
FeatureCases ==
    {[kp1 |-> MaxGood, kp2 |-> MaxGood, good |-> MaxGood, hFound |-> TRUE, inl |-> MaxGood],
     [kp1 |-> MaxGood, kp2 |-> MaxGood, good |-> 20, hFound |-> TRUE, inl |-> 7],
     [kp1 |-> MaxGood, kp2 |-> MaxGood, good |-> 20, hFound |-> FALSE, inl |-> 0],
     [kp1 |-> MaxGood, kp2 |-> MaxGood, good |-> MinGood - 1, hFound |-> FALSE, inl |-> 0],
     [kp1 |-> MinKeypoints - 1, kp2 |-> MaxGood, good |-> 0, hFound |-> FALSE, inl |-> 0],
     [kp1 |-> 0, kp2 |-> MaxGood, good |-> 0, hFound |-> FALSE, inl |-> 0],
     [kp1 |-> MaxGood, kp2 |-> 0, good |-> 0, hFound |-> FALSE, inl |-> 0],
     [kp1 |-> 0, kp2 |-> 0, good |-> 0, hFound |-> FALSE, inl |-> 0]}

\* what the estimation finds on the same matches from another position of the
\* sampler: other samples may reach the same consensus or a smaller one
Resampled(o) ==
    IF o.hFound
    THEN {[hFound |-> TRUE, inl |-> o.inl], [hFound |-> TRUE, inl |-> Max(4, o.inl - 1)]}
    ELSE {[hFound |-> FALSE, inl |-> 0]}

\* the feature answers of a pair: raises tells whether detectAndCompute raises
\* on an image with a 1-pixel side
FeatureAnswers(r, s) ==
    UNION {{[kp1 |-> o.kp1, kp2 |-> o.kp2, good |-> o.good, hFound |-> o.hFound,
             inl |-> o.inl, later |-> l, raises |-> x] :
                l \in Resampled(o),
                x \in (IF OrbFault(r) \/ OrbFault(s) THEN BOOLEAN ELSE {FALSE})} :
           o \in {c \in FeatureCases : c.kp1 \in KpOf(r) /\ c.kp2 \in KpOf(s)}}

\* what the libraries compute for a pair of images; an exact match after the
\* resize gives SSIM 1.0, and equal images give equal hashes
Answers(r, s) ==
    {a \in [equal : BOOLEAN,
            raw : {Q(0 - 500, 1000), Q(984, 1000), Q(1000, 1000)},
            dist : {0, 7},
            max_val : {Q(243, 256), Q(1, 1)},
            max_loc : LocAnswers(r, s),
            orb : FeatureAnswers(r, s)] :
        /\ a.equal => QEq(a.raw, Q(1, 1))
        /\ (a.equal /\ r = s) => a.dist = 0}

NoAnswers == <<>>

Worlds ==
    UNION {{[ref_file |-> r, scr_file |-> s, ans |-> a] : a \in Answers(r, s)} :
           r \in RunShapes, s \in RunShapes}
    \cup {[ref_file |-> r, scr_file |-> Unreadable, ans |-> NoAnswers] : r \in RunShapes}
    \cup {[ref_file |-> Unreadable, scr_file |-> Unreadable, ans |-> NoAnswers]}

\* what the libraries compute from arrays whose content is no longer that of
\* the files (a rectangle drawn over the candidate): the pixels differ, the
\* similarity scores are lower and the matches fewer
Redrawn(a) ==
    [a EXCEPT !.equal = FALSE, !.raw = Q(984, 1000), !.dist = 7, !.max_val = Q(243, 256),
              !.orb = [a.orb EXCEPT !.good = Min(a.orb.good, MinGood - 1),
                                     !.hFound = FALSE, !.inl = 0,
                                     !.later = [hFound |-> FALSE, inl |-> 0]]]

\* the answers of the libraries on the arrays r and s as a comparator finds them
AnswersOn(l, r, s) ==
    IF r = l.ref_file /\ s = l.scr_file THEN l.ans ELSE Redrawn(l.ans)

\* one comparator of main called on (r, s) with the RANSAC sampler starting at
\* start: the tuple main appends, the file written, the box of the overlay
\* main draws (none: <<>>), the estimations run, or the exception raised
RunComparator(m, r, s, a, start) ==
    CASE m = "exact" ->
            [fault |-> "none", result |-> ExactResult(a.equal), writes |-> {},
             box |-> <<>>, draws |-> 0]
      [] m = "resize_ssim" ->
            IF SsimFault(s)
            THEN [fault |-> "ValueError", result |-> <<>>, writes |-> {},
                  box |-> <<>>, draws |-> 0]
            ELSE [fault |-> "none", result |-> SsimResult(a.raw), writes |-> {DiffPath},
                  box |-> <<>>, draws |-> 0]
      [] m = "phash" ->
            [fault |-> "none", result |-> PhashResult(a.dist), writes |-> {},
             box |-> <<>>, draws |-> 0]
      [] m = "template" ->
            LET t == TemplateOf(r, s)
            IN  IF ~t.ok
                THEN [fault |-> "cv2.error", result |-> <<>>, writes |-> {},
                      box |-> <<>>, draws |-> 0]
                ELSE [fault |-> "none",
                      result |-> TemplateResult(t.img, a.max_val, a.max_loc),
                      writes |-> {TemplatePath},
                      box |-> LET c == cmp_template(t.img, a.max_val, a.max_loc)
                              IN  <<c.tl, c.br>>,
                      draws |-> 0]
      [] m = "orb" ->
            IF a.orb.raises
            THEN [fault |-> "cv2.error", result |-> <<>>, writes |-> {},
                  box |-> <<>>, draws |-> 0]
            ELSE LET f == Ransac(a.orb, start)
                 IN  [fault |-> "none",
                      result |-> OrbResult(a.orb.kp1, a.orb.kp2, a.orb.good, f.hFound, f.inl),
                      writes |-> {}, box |-> <<>>,
                      draws |-> Estimations(cmp_orb(a.orb.kp1, a.orb.kp2, a.orb.good,
                                                    f.hFound, f.inl))]

\* scr after main has used the return value c of a comparator: the template
\* overlay is drawn when c carries a box
AfterOverlay(s, c) == IF c.box = <<>> THEN s ELSE Overlay(s, c.box[1], c.box[2]).scr

\* the position of main after each comparator, in program order
Stage == <<"exact", "ssim", "phash", "template", "orb", "pick">>

FilesInit ==
    /\ pc = "load"
    /\ ref = NoImage
    /\ scr = NoImage
    /\ results = <<>>
    /\ summary = NoSummary
    /\ error = NoError
    /\ files = {}
    /\ call = NoCall
    /\ ret = NoRet
    /\ lib \in Worlds
    /\ printed = <<>>
    /\ draws = 0
    /\ flight = NoFlight

\* ref = imread_any(REF_PATH); scr = imread_any(SCREENSHOT_PATH), on the files of lib
LoadFiles(next) ==
    /\ pc = "load"
    /\ lib # NoLib
    /\ LET r == imread_any(lib.ref_file)
           s == imread_any(lib.scr_file)
       IN  IF ~r.ok
           THEN Raise("load", "FileNotFoundError") /\ UNCHANGED <<ref, scr>>
           ELSE IF ~s.ok
           THEN Raise("load", "FileNotFoundError") /\ ref' = r.img /\ UNCHANGED scr
           ELSE /\ ref' = r.img
                /\ scr' = s.img
                /\ pc' = next
                /\ UNCHANGED error
    /\ UNCHANGED <<results, summary, files, lib, printed, draws, flight>>
    /\ UNCHANGED fnVars

\* comparator m runs on the images main holds and main moves to position next
Step(m, next) ==
    /\ LET c == RunComparator(m, ref, scr, AnswersOn(lib, ref, scr), SamplerAt(draws))
       IN  IF c.fault # "none"
           THEN Raise(m, c.fault) /\ UNCHANGED <<results, files, scr, draws>>
           ELSE /\ results' = Append(results, c.result)
                /\ files' = files \cup c.writes
                /\ scr' = AfterOverlay(scr, c)
                /\ draws' = draws + c.draws
                /\ pc' = next
                /\ UNCHANGED error
    /\ UNCHANGED <<ref, summary, lib, printed, flight>>
    /\ UNCHANGED fnVars

LoadMain == LoadFiles("exact")

\* the comparators in the order of main
RunNext ==
    /\ lib # NoLib
    /\ \E i \in 1 .. Len(Methods) : pc = Stage[i] /\ Step(Methods[i], Stage[i + 1])

\* results = []: the list main starts with, whatever an earlier invocation left
EnterMain(prev) == <<>>

\* main is invoked once more on the same files, in the same process
Again ==
    /\ pc = "done"
    /\ lib # NoLib
    /\ Len(printed) < MaxRuns
    /\ pc' = "load"
    /\ ref' = NoImage
    /\ scr' = NoImage
    /\ results' = EnterMain(results)
    /\ summary' = NoSummary
    /\ UNCHANGED <<error, files, lib, printed, draws, flight>>
    /\ UNCHANGED fnVars

RerunNext == LoadMain \/ RunNext \/ Pick \/ Again

RerunSpec == FilesInit /\ [][RerunNext]_vars

(***************************************************************************)
(* The five comparators of main run in any order and overlapping in time   *)
(* on the loaded images.  A comparator takes two steps: the call, which    *)
(* reads the arrays main holds as they are at that moment and returns, and *)
(* main's use of the return value (the append, and for the template the    *)
(* overlay and its file).  Between the two, any other comparator may be    *)
(* called and any other return value used.                                 *)
(***************************************************************************)
LoadAny == LoadFiles("run")

\* a comparator that has not been called yet is called
StartAny ==
    /\ pc = "run"
    /\ \E k \in 1 .. Len(Methods) :
          /\ Methods[k] \notin DOMAIN flight
          /\ \A i \in 1 .. Len(results) : results[i].method # Methods[k]
          /\ LET c == RunComparator(Methods[k], ref, scr, AnswersOn(lib, ref, scr),
                                    SamplerAt(draws))
             IN  IF c.fault # "none"
                 THEN Raise(Methods[k], c.fault) /\ UNCHANGED <<flight, draws>>
                 ELSE /\ flight' = [m \in DOMAIN flight \cup {Methods[k]} |->
                                       IF m = Methods[k] THEN c ELSE flight[m]]
                      /\ draws' = draws + c.draws
                      /\ UNCHANGED <<pc, error>>
    /\ UNCHANGED <<ref, scr, results, summary, files, lib, printed>>
    /\ UNCHANGED fnVars

\* main uses the return value of a comparator that has returned
FinishAny ==
    /\ pc = "run"
    /\ \E m \in DOMAIN flight :
          /\ results' = Append(results, flight[m].result)
          /\ files' = files \cup flight[m].writes
          /\ scr' = AfterOverlay(scr, flight[m])
          /\ flight' = [x \in DOMAIN flight \ {m} |-> flight[x]]
    /\ pc' = IF Len(results) + 1 = Len(Methods) THEN "pick" ELSE "run"
    /\ UNCHANGED <<ref, summary, error, lib, printed, draws>>
    /\ UNCHANGED fnVars

AnyOrderNext == LoadAny \/ StartAny \/ FinishAny \/ Pick

AnyOrderSpec == FilesInit /\ [][AnyOrderNext]_vars

(***************************************************************************)
(* Vocabulary of the properties.                                           *)
(***************************************************************************)
Done == pc = "done"
MethodSet == {Methods[i] : i \in 1 .. Len(Methods)}
Entries == IF summary = NoSummary THEN <<>> ELSE summary.per_method
EntryOf(m) == CHOOSE i \in 1 .. Len(results) : results[i].method = m
HasEntry(m) == \E i \in 1 .. Len(results) : results[i].method = m
InUnitInterval(q) == QLeq(Q(0, 1), q) /\ QLeq(q, Q(1, 1))
SomePassed == \E i \in 1 .. Len(results) : results[i].passed
\* indices of the candidate pool: the passing entries if any, else all
Candidates ==
    LET P == {i \in 1 .. Len(Entries) : Entries[i].passed}
    IN  IF P # {} THEN P ELSE 1 .. Len(Entries)
\* StructuralSimilarity > Exact > TemplateLocalization > FeatureGeometric > PerceptualHash
Priority == <<"resize_ssim", "exact", "template", "orb", "phash">>
Rank(m) == CHOOSE k \in 1 .. Len(Priority) : Priority[k] = m
Reverse(s) == [i \in 1 .. Len(s) |-> s[Len(s) + 1 - i]]

(***************************************************************************)
(* C1: every score recorded in per_method lies in [0, 1]; the SSIM and     *)
(* template scores are never reported below 0.                             *)
(* The code records the raw SSIM scalar and the raw correlation maximum,   *)
(* both of which can be negative: TLC finds this invariant violated.       *)
(***************************************************************************)
C1_ScoresInUnitInterval ==
    \A i \in 1 .. Len(Entries) : InUnitInterval(Entries[i].score)

(***************************************************************************)
(* C2: whenever at least one of the five results passed, the selected best *)
(* is a passing result, even when a failing result has a strictly higher   *)
(* score than every passing one.                                           *)
(***************************************************************************)
C2_BestPassesWhenAnyPasses ==
    (Done /\ SomePassed) => summary.best.passed

C2_Witness ==
    /\ Done
    /\ SomePassed
    /\ \E j \in 1 .. Len(results) :
          /\ ~results[j].passed
          /\ \A i \in 1 .. Len(results) :
                results[i].passed => QLt(results[i].score, results[j].score)
    /\ summary.best.passed

(***************************************************************************)
(* C3: best has a score greater than or equal to the score of every result *)
(* of the candidate pool; a strictly higher score beats a higher priority. *)
(***************************************************************************)
C3_BestHasMaxScore ==
    Done => \A i \in Candidates : QLeq(Entries[i].score, summary.best.score)

C3_Witness ==
    /\ Done
    /\ summary.best.method = "exact"
    /\ \E i \in Candidates :
          /\ Entries[i].method = "resize_ssim"
          /\ QLt(Entries[i].score, summary.best.score)

(***************************************************************************)
(* C4: among the results of the candidate pool that share the maximum      *)
(* score, best is the one first in the priority order resize_ssim > exact  *)
(* > template > orb > phash, whatever the position of the results in the   *)
(* list (the reversed list selects the same best).                         *)
(***************************************************************************)
C4_TieBreakByPriority ==
    Done =>
        /\ \A i \in Candidates :
              QEq(Entries[i].score, summary.best.score)
                  => Rank(summary.best.method) <= Rank(Entries[i].method)
        /\ Sorted(Pool(Reverse(results)))[1].method = summary.best.method

C4_Witness ==
    /\ Done
    /\ summary.best.method = "resize_ssim"
    /\ \E i \in Candidates, j \in Candidates :
          /\ Entries[i].method = "exact"
          /\ Entries[j].method = "template"
          /\ QEq(Entries[i].score, summary.best.score)
          /\ QEq(Entries[j].score, summary.best.score)

(***************************************************************************)
(* C5: if none of the five comparators passes, the invocation still ends   *)
(* with a Summary whose best is populated from the full set of results,    *)
(* and best.passed is false.                                               *)
(***************************************************************************)
C5_BestPopulatedWhenNonePasses ==
    (Len(results) = 5 /\ ~SomePassed /\ pc # "pick") =>
        /\ summary # NoSummary
        /\ summary.best.method \in MethodSet
        /\ ~summary.best.passed
        /\ \E i \in 1 .. Len(results) : results[i].method = summary.best.method

C5_Witness ==
    /\ Done
    /\ ~SomePassed
    /\ summary # NoSummary
    /\ ~summary.best.passed
    /\ QLt(Q(0, 1), summary.best.score)

(***************************************************************************)
(* C6: in every Summary, best is one of the entries of per_method: method, *)
(* score, passed and details all equal those of the per_method entry with  *)
(* the same method.                                                        *)
(***************************************************************************)
C6_BestIsAnEntry ==
    summary # NoSummary =>
        /\ \E i \in 1 .. Len(Entries) : Entries[i].method = summary.best.method
        /\ \A i \in 1 .. Len(Entries) :
              Entries[i].method = summary.best.method =>
                  /\ Entries[i].score = summary.best.score
                  /\ Entries[i].passed = summary.best.passed
                  /\ Entries[i].details = summary.best.details

C6_Witness ==
    /\ Done
    /\ summary.best.method = "orb"
    /\ summary.best.details.inliers >= THRESHOLDS.orb_min_inliers
    /\ \E i \in 1 .. Len(Entries) : Entries[i] = summary.best

(***************************************************************************)
(* C7: every completed invocation yields a per_method list with exactly    *)
(* five entries, one per method, in the order exact, resize_ssim, phash,   *)
(* template, orb.                                                          *)
(***************************************************************************)
C7_OneEntryPerMethod ==
    Done =>
        /\ Len(Entries) = 5
        /\ \A i \in 1 .. 5 : Entries[i].method = Methods[i]

C7_Witness ==
    /\ Done
    /\ Len(summary.per_method) = 5
    /\ summary.per_method[5].method = "orb"

(***************************************************************************)
(* C8: if one comparator raises, the aggregator still produces a Summary   *)
(* with five entries in which the faulting method has score 0.0, passed    *)
(* false and an error detail.                                              *)
(* main has no exception handler: the fault ends the invocation without a  *)
(* Summary, and TLC finds this invariant violated.                         *)
(***************************************************************************)
C8_FaultIsolated ==
    error.stage \in MethodSet =>
        /\ summary # NoSummary
        /\ Len(summary.per_method) = 5
        /\ \E i \in 1 .. 5 :
              /\ summary.per_method[i].method = error.stage
              /\ QEq(summary.per_method[i].score, Q(0, 1))
              /\ ~summary.per_method[i].passed
              /\ "error" \in DOMAIN summary.per_method[i].details

(***************************************************************************)
(* C9: the orb result has passed = true if and only if score >= 0.35 and   *)
(* inliers >= 12; a score at or above 0.35 with fewer than 12 inliers      *)
(* never passes.                                                           *)
(***************************************************************************)
C9_OrbPassedIff ==
    \A i \in 1 .. Len(results) :
        results[i].method = "orb" =>
            (results[i].passed <=>
                (QLeq(Q(35, 100), results[i].score) /\ results[i].details.inliers >= 12))

C9_Witness ==
    /\ HasEntry("orb")
    /\ QLeq(Q(35, 100), results[EntryOf("orb")].score)
    /\ results[EntryOf("orb")].details.inliers < 12
    /\ results[EntryOf("orb")].details.inliers > 0
    /\ ~results[EntryOf("orb")].passed

(***************************************************************************)
(* C10: for resize_ssim, phash and template, passed is true if and only if *)
(* the score is >= the method's threshold (0.985, 0.90, 0.95); a score     *)
(* exactly equal to the threshold passes.                                  *)
(***************************************************************************)
DefaultThreshold(m) ==
    CASE m = "resize_ssim" -> Q(985, 1000)
      [] m = "phash" -> Q(90, 100)
      [] m = "template" -> Q(95, 100)

C10_ThresholdPassedIff ==
    \A i \in 1 .. Len(results) :
        results[i].method \in {"resize_ssim", "phash", "template"} =>
            (results[i].passed <=>
                QLeq(DefaultThreshold(results[i].method), results[i].score))

C10_Witness ==
    /\ HasEntry("resize_ssim")
    /\ HasEntry("template")
    /\ QEq(results[EntryOf("resize_ssim")].score, Q(985, 1000))
    /\ results[EntryOf("resize_ssim")].passed
    /\ QEq(results[EntryOf("template")].score, Q(243, 256))
    /\ ~results[EntryOf("template")].passed
    /\ ~results[EntryOf("phash")].passed

(***************************************************************************)
(* Vocabulary of the properties of the comparators called alone.           *)
(***************************************************************************)
Returned(fn) == call.fn = fn /\ ret # NoRet
SymDiff(a, b) == (a \ b) \cup (b \ a)
TooFewKeypoints == call.kp1 < 10 \/ call.kp2 < 10
Fits(img, max_w, max_h) == img.w <= max_w /\ img.h <= max_h

(***************************************************************************)
(* C11: for every pair of pixel-for-pixel identical images (same size,     *)
(* same samples) the exact-match comparator returns score 1.0 and          *)
(* passed = true.                                                          *)
(***************************************************************************)
C11_IdenticalImagesMatch ==
    (Returned("exact") /\ call.ref = call.scr) =>
        (ret.score = Q(1, 1) /\ ret.passed = TRUE)

C11_Witness ==
    /\ Returned("exact")
    /\ call.ref = call.scr
    /\ call.ref.w = 2
    /\ call.ref.h = 1
    /\ call.ref.px[<<1, 1>>] # call.ref.px[<<2, 1>>]
    /\ ret.passed

(***************************************************************************)
(* C12: the exact-match score is exactly 0.0 or 1.0, and passed is true    *)
(* exactly when the score is 1.0, which is exactly when the reference      *)
(* resized to the candidate's size equals the candidate in every sample.   *)
(***************************************************************************)
C12_ExactIsBinary ==
    Returned("exact") =>
        LET resized == cv2_resize(call.ref, call.scr.w, call.scr.h)
            same == \A p \in (1 .. call.scr.w) \X (1 .. call.scr.h) :
                        resized.px[p] = call.scr.px[p]
        IN  /\ ret.score \in {Q(0, 1), Q(1, 1)}
            /\ ret.passed <=> (ret.score = Q(1, 1))
            /\ ret.passed <=> same

C12_Witness ==
    /\ Returned("exact")
    /\ call.ref.w = 2
    /\ call.ref.h = 2
    /\ call.scr.w = 1
    /\ call.scr.h = 1
    /\ call.ref.px[<<1, 1>>] # call.ref.px[<<2, 2>>]
    /\ ret.score = Q(0, 1)
    /\ ~ret.passed

(***************************************************************************)
(* C13: the perceptual-hash score equals 1 - d/64 with d the Hamming       *)
(* distance of the two hashes: it lies in [0, 1], is 1.0 exactly when the  *)
(* hashes are identical, and loses 1/64 per differing bit.                 *)
(***************************************************************************)
C13_PhashScore ==
    Returned("phash") =>
        LET d == Cardinality(SymDiff(call.a, call.b))
        IN  /\ ret.score.n * 64 + d * ret.score.d = 64 * ret.score.d
            /\ InUnitInterval(ret.score)
            /\ QEq(ret.score, Q(1, 1)) <=> (call.a = call.b)

C13_Witness ==
    /\ Returned("phash")
    /\ Cardinality(SymDiff(call.a, call.b)) = 7
    /\ QEq(ret.score, Q(57, 64))

(***************************************************************************)
(* C14: the perceptual-hash distance and score are symmetric: swapping     *)
(* reference and candidate gives the same values.                          *)
(***************************************************************************)
C14_PhashSymmetric ==
    Returned("phash") =>
        /\ ret.dist = HashDistance(call.b, call.a)
        /\ ret.score = cmp_phash(HashDistance(call.b, call.a))

C14_Witness ==
    /\ Returned("phash")
    /\ call.a \ call.b # {}
    /\ call.b \ call.a # {}
    /\ Cardinality(call.a \ call.b) # Cardinality(call.b \ call.a)
    /\ ret.dist = Cardinality(call.a \ call.b) + Cardinality(call.b \ call.a)

(***************************************************************************)
(* C15: when either image yields no descriptors or fewer than 10           *)
(* keypoints, cmp_orb returns score 0.0, inliers 0 and good-matches 0      *)
(* without matching descriptors or estimating a homography.                *)
(***************************************************************************)
C15_OrbTooFewKeypoints ==
    (Returned("orb") /\ TooFewKeypoints) =>
        /\ ret.ratio = Q(0, 1)
        /\ ret.inliers = 0
        /\ ret.total = 0
        /\ "knnMatch" \notin ret.calls
        /\ "findHomography" \notin ret.calls

C15_Witness ==
    /\ Returned("orb")
    /\ call.kp1 = 9
    /\ call.kp2 >= 10
    /\ call.good > 0
    /\ ret.total = 0
    /\ ret.calls = {"detectAndCompute"}

(***************************************************************************)
(* C16: when fewer than 8 good matches survive, or the homography          *)
(* estimation returns no model, cmp_orb returns score 0.0 and inliers 0    *)
(* with the actual number of good matches.                                 *)
(***************************************************************************)
C16_OrbReportsGoodCount ==
    (Returned("orb") /\ ~TooFewKeypoints /\ (call.good < 8 \/ ~call.hFound)) =>
        /\ ret.ratio = Q(0, 1)
        /\ ret.inliers = 0
        /\ ret.total = call.good

C16_Witness ==
    /\ Returned("orb")
    /\ ~TooFewKeypoints
    /\ call.good >= 8
    /\ ~call.hFound
    /\ ret.ratio = Q(0, 1)
    /\ ret.total = call.good

(***************************************************************************)
(* C17: when the homography estimation succeeds, the score equals          *)
(* inlier_count / good_match_count with good_match_count >= 8 and          *)
(* 0 <= inlier_count <= good_match_count: no division by zero, and the     *)
(* score is in [0, 1].                                                     *)
(***************************************************************************)
C17_OrbRatio ==
    (Returned("orb") /\ "findHomography" \in ret.calls /\ call.hFound) =>
        /\ ret.total >= 8
        /\ ret.total = call.good
        /\ 0 <= ret.inliers
        /\ ret.inliers <= ret.total
        /\ ret.ratio.d # 0
        /\ ret.ratio.n * ret.total = ret.inliers * ret.ratio.d
        /\ InUnitInterval(ret.ratio)

C17_Witness ==
    /\ Returned("orb")
    /\ call.hFound
    /\ ret.total = 8
    /\ ret.inliers = 5
    /\ ret.ratio = Q(5, 8)

(***************************************************************************)
(* C18: for every reference and candidate with positive sides, the         *)
(* template handed to the correlation step has width in 1 .. candidate     *)
(* width and height in 1 .. candidate height, also for extreme aspect      *)
(* ratios.                                                                 *)
(* resize_keep_aspect truncates the scaled side to 0 there and cv2.resize  *)
(* raises: TLC finds this invariant violated.                              *)
(***************************************************************************)
C18_TemplateFitsCandidate ==
    Returned("template") =>
        /\ ret.ok
        /\ 1 <= ret.img.w /\ ret.img.w <= call.scr.w
        /\ 1 <= ret.img.h /\ ret.img.h <= call.scr.h

(***************************************************************************)
(* C19: resize_keep_aspect never upscales: the output sides are at most    *)
(* the input's; an input that fits within (max_w, max_h) comes back with   *)
(* the same size and content; an input that exceeds a bound is scaled      *)
(* down, and the output fits within both bounds.                           *)
(***************************************************************************)
C19_NeverUpscales ==
    (Returned("resize") /\ ret.ok) =>
        /\ ret.img.w <= call.img.w
        /\ ret.img.h <= call.img.h
        /\ Fits(call.img, call.max_w, call.max_h) => ret.img = call.img
        /\ ~Fits(call.img, call.max_w, call.max_h) =>
              /\ Fits(ret.img, call.max_w, call.max_h)
              /\ ret.img.w < call.img.w \/ ret.img.h < call.img.h

C19_Witness ==
    /\ Returned("resize")
    /\ ret.ok
    /\ call.img.w = 22
    /\ call.img.h = 22
    /\ call.max_w = 15
    /\ call.max_h = 15
    /\ ret.img.w = 14
    /\ ret.img.h = 14

(***************************************************************************)
(* C20: if the reference or the candidate cannot be read, the invocation   *)
(* fails before any comparator runs and no Summary is produced; loading    *)
(* failures are the only failures that abort the whole invocation.         *)
(* A comparator that raises aborts the invocation as well (C8): TLC finds  *)
(* this invariant violated.                                                *)
(***************************************************************************)
C20_OnlyLoadingAborts ==
    /\ error.stage = "load" => (pc = "failed" /\ results = <<>> /\ summary = NoSummary)
    /\ pc = "failed" => error.stage = "load"

(***************************************************************************)
(* C21: two invocations of main on the same two files with the same        *)
(* thresholds print the same summary: the same per-method scores and       *)
(* passed flags and the same best, the orb result resting on RANSAC        *)
(* included, whatever the estimation would find from another position of   *)
(* its sampler.                                                            *)
(***************************************************************************)
C21_SameSummaryAgain ==
    \A i \in 1 .. Len(printed), j \in 1 .. Len(printed) : printed[i] = printed[j]

C21_Witness ==
    /\ Len(printed) = 2
    /\ draws = 2
    /\ lib.ans.orb.later.inl < lib.ans.orb.inl
    /\ printed[2].best.method = "orb"
    /\ printed[2].best.passed
    /\ printed[2].best.details.inliers = lib.ans.orb.inl
    /\ printed[2].best.details.inliers >= 12
    /\ printed[1] = printed[2]

(***************************************************************************)
(* C22: whatever the order in which the five comparators are called and    *)
(* their return values used, overlapping or not, each comparator returns   *)
(* and main appends what that comparator gives when it is the first to run *)
(* on the loaded files, which is also what it gives in the run in program  *)
(* order wherever that run reaches it; and a best is selected only if the  *)
(* run in program order selects one, and is the same: no result depends on *)
(* which comparators ran before or meanwhile.                              *)
(***************************************************************************)
\* main run in program order on the files: where main stands after at most k
\* comparators.  A comparator that raises ends main: fault names the exception,
\* results keeps the entries appended before it and no later one is called.
RECURSIVE MainRun(_)
MainRun(k) ==
    IF k = 0
    THEN [scr |-> lib.scr_file, results |-> <<>>, draws |-> 0, fault |-> "none"]
    ELSE LET p == MainRun(k - 1)
         IN  IF p.fault # "none" THEN p
             ELSE LET c == RunComparator(Methods[k], lib.ref_file, p.scr,
                                         AnswersOn(lib, lib.ref_file, p.scr),
                                         SamplerAt(p.draws))
                  IN  IF c.fault # "none" THEN [p EXCEPT !.fault = c.fault]
                      ELSE [scr |-> AfterOverlay(p.scr, c),
                            results |-> Append(p.results, c.result),
                            draws |-> p.draws + c.draws,
                            fault |-> "none"]

\* results when main reaches line 102 or ends with an exception before it
MainResults == MainRun(Len(Methods)).results

\* comparator m called on the images as loaded, before any other has run
CalledFirst(m) ==
    RunComparator(m, lib.ref_file, lib.scr_file, lib.ans, SamplerAt(0))

C22_OrderIndependent ==
    (lib # NoLib /\ pc \in {"run", "pick", "done"}) =>
        LET main == MainRun(Len(Methods))
        IN  /\ \A m \in DOMAIN flight :
                  LET c == CalledFirst(m)
                  IN  c.fault = "none" /\ flight[m].result = c.result
            /\ \A i \in 1 .. Len(results) :
                  LET c == CalledFirst(results[i].method)
                  IN  c.fault = "none" /\ results[i] = c.result
            /\ \A k \in 1 .. Len(main.results) :
                  /\ Methods[k] \in DOMAIN flight =>
                        flight[Methods[k]].result = main.results[k]
                  /\ \A i \in 1 .. Len(results) :
                        results[i].method = Methods[k] => results[i] = main.results[k]
            /\ Done =>
                  /\ main.fault = "none"
                  /\ Len(MainResults) = Len(Methods)
                  /\ summary.best = BuildSummary(main.results, Sorted(Pool(main.results))[1]).best

C22_Witness ==
    /\ Done
    /\ lib # NoLib
    /\ results[1].method = "orb"
    /\ results[2].method = "template"
    /\ results[5].method = "exact"
    /\ results[1].passed
    /\ results[2].passed
    /\ QEq(results[1].score, results[2].score)
    /\ TemplatePath \in files
    /\ summary.best.method = "template"

(***************************************************************************)
(* C23: the reference and the candidate held by main are, from loading     *)
(* until the summary is built, the images that were read: no comparator    *)
(* writes into them, the template overlay is drawn on a copy of the        *)
(* candidate, and resize_keep_aspect called on an image that needs no      *)
(* scaling returns a new array with the same content, not its argument.    *)
(***************************************************************************)
C23_InputsReadOnly ==
    lib # NoLib =>
        /\ ref # NoImage => ref = lib.ref_file
        /\ scr # NoImage => scr = lib.scr_file
        /\ pc \in {"exact", "ssim", "phash", "template", "orb", "pick", "done"} =>
              (ref # NoImage /\ scr # NoImage)
        /\ \A img \in {ref, scr} \ {NoImage} :
              LET copy == resize_keep_aspect(img, img.w, img.h)
              IN  copy.ok /\ copy.fresh /\ copy.img = img

C23_Witness ==
    /\ Done
    /\ lib # NoLib
    /\ TemplatePath \in files
    /\ ref.w < scr.w
    /\ scr = lib.scr_file
    /\ ref = lib.ref_file
    /\ summary.best.method = "template"

(***************************************************************************)
(* C24: the choice of best depends only on the method, score and passed    *)
(* flag of each result: a result list that agrees with `results` on these  *)
(* three for every entry and differs in details (in one entry, or in all)  *)
(* selects the same best method.                                           *)
(***************************************************************************)
OtherDetails ==
    {EmptyDetails, [diff |-> DiffPath], [match_vis |-> TemplatePath],
     [inliers |-> 0, total_good |-> 0], [inliers |-> MaxGood, total_good |-> MaxGood]}
WithDetails(rs, K, d) ==
    [i \in 1 .. Len(rs) |->
        Result(rs[i].method, rs[i].score, rs[i].passed,
               IF i \in K THEN d ELSE rs[i].details)]

C24_BestIgnoresDetails ==
    Done =>
        \A d \in OtherDetails :
            \A K \in {{k} : k \in 1 .. Len(results)} \cup {1 .. Len(results)} :
                Sorted(Pool(WithDetails(results, K, d)))[1].method = summary.best.method

C24_Witness ==
    /\ Done
    /\ summary.best.method = "template"
    /\ \E i \in Candidates :
          /\ Entries[i].method = "orb"
          /\ QEq(Entries[i].score, summary.best.score)
          /\ Entries[i].details.inliers >= 12
    /\ Sorted(Pool(WithDetails(results, {4}, [inliers |-> MaxGood, total_good |-> MaxGood])))[1].method
          = "template"

(***************************************************************************)
(* C25: the bottom-right corner cmp_template returns is its top-left       *)
(* corner plus the size of the template that was matched (the reference    *)
(* after any downscaling, not the original reference), and the box lies    *)
(* inside the candidate: 0 <= tl.x, br.x <= candidate width, 0 <= tl.y,    *)
(* br.y <= candidate height.                                               *)
(***************************************************************************)
C25_TemplateBox ==
    (Returned("template") /\ ret.ok) =>
        LET matched == IF Fits(call.ref, call.scr.w, call.scr.h) THEN call.ref
                       ELSE resize_keep_aspect(call.ref, call.scr.w, call.scr.h).img
        IN  /\ ret.br[1] = ret.tl[1] + matched.w
            /\ ret.br[2] = ret.tl[2] + matched.h
            /\ 0 <= ret.tl[1] /\ ret.br[1] <= call.scr.w
            /\ 0 <= ret.tl[2] /\ ret.br[2] <= call.scr.h

C25_Witness ==
    /\ Returned("template")
    /\ ret.ok
    /\ call.ref = [w |-> 22, h |-> 22]
    /\ call.scr = [w |-> 15, h |-> 15]
    /\ ret.tl = <<1, 1>>
    /\ ret.br = <<15, 15>>

(***************************************************************************)
(* C26: the SSIM difference map is rescaled to the full range 0 .. 255 by  *)
(* its own minimum and maximum: every output sample is an integer in       *)
(* 0 .. 255, the minimum of the map goes to 0 and, when the map is not     *)
(* constant, its maximum goes to 255; a constant map goes to 0 everywhere. *)
(* The 1e-12 added to the denominator keeps the quotient of the maximum    *)
(* below 255 and astype(np.uint8) truncates it: the maximum goes to 254 at *)
(* most, and TLC finds this invariant violated.                            *)
(***************************************************************************)
C26_DiffMapFullRange ==
    Returned("ssim") =>
        LET diff == DiffOf(call.full)
            lo == MinOf(diff)
            hi == MaxOf(diff)
        IN  \A i \in 1 .. Len(diff) :
                /\ ret.diff_norm[i] \in 0 .. 255
                /\ diff[i] = lo => ret.diff_norm[i] = 0
                /\ (hi # lo /\ diff[i] = hi) => ret.diff_norm[i] = 255
                /\ hi = lo => ret.diff_norm[i] = 0

(***************************************************************************)
(* C27: an orb result that comes from a short-circuit exit of cmp_orb (too *)
(* few keypoints or no descriptors, fewer than 8 good matches, no          *)
(* homography) never has passed = true, under every threshold              *)
(* configuration with orb_min_inliers >= 1 or orb_ratio > 0, the defaults  *)
(* among them.                                                             *)
(***************************************************************************)
ShortCircuit == TooFewKeypoints \/ call.good < 8 \/ ~call.hFound

C27_ShortCircuitNeverPasses ==
    (/\ Returned("orb")
     /\ ShortCircuit
     /\ call.thr.orb_min_inliers >= 1 \/ QLt(Q(0, 1), call.thr.orb_ratio)) => ~ret.passed

C27_Witness ==
    /\ Returned("orb")
    /\ ~TooFewKeypoints
    /\ call.good >= 8
    /\ ~call.hFound
    /\ call.thr.orb_min_inliers = 1
    /\ QEq(call.thr.orb_ratio, Q(0, 1))
    /\ ~ret.passed

(***************************************************************************)
(* C28: whenever the exact result passes (its score is then 1.0), best is  *)
(* the exact result or the resize_ssim result: no template, orb or phash   *)
(* result is selected ahead of a passing exact match.                      *)
(***************************************************************************)
C28_ExactBeatsAllButSsim ==
    (Done /\ results[EntryOf("exact")].passed) =>
        /\ QEq(results[EntryOf("exact")].score, Q(1, 1))
        /\ summary.best.method \in {"exact", "resize_ssim"}

C28_Witness ==
    /\ Done
    /\ results[EntryOf("exact")].passed
    /\ \A m \in {"resize_ssim", "phash", "template", "orb"} :
          /\ results[EntryOf(m)].passed
          /\ QEq(results[EntryOf(m)].score, Q(1, 1))
    /\ summary.best.method = "resize_ssim"

(***************************************************************************)
(* C29: on the same arguments each single-method script function returns   *)
(* what the comparator of the combined runner returns: the same score, the *)
(* same diff map (resize_ssim), the same bounding box (template_match),    *)
(* and the same passed value under the default thresholds.                 *)
(***************************************************************************)
C29_StandaloneAgrees ==
    /\ Returned("exact") =>
          LET alone == compare_exact_after_resize(call.ref, call.scr)
          IN  alone.score = ret.score /\ alone.passed = ret.passed
    /\ Returned("ssim") =>
          LET alone == resize_ssim(call.raw, call.full)
          IN  /\ alone.score = ret.score
              /\ alone.diff_norm = ret.diff_norm
              /\ QLeq(SSIM_THRESHOLD, alone.score) = SsimResult(call.raw).passed
    /\ Returned("phash") =>
          LET alone == phash_score(call.a, call.b)
          IN  /\ alone = ret.score
              /\ QLeq(PHASH_THRESHOLD, alone) = PhashResult(ret.dist).passed
    /\ Returned("template") =>
          LET alone == template_match(call.ref, call.scr, call.max_val, call.max_loc)
          IN  /\ alone.ok = ret.ok
              /\ ret.ok =>
                    /\ alone.score = ret.score
                    /\ alone.top_left = ret.tl
                    /\ alone.bottom_right = ret.br
                    /\ alone.shape = <<ret.img.h, ret.img.w>>
                    /\ QLeq(TEMPLATE_THRESHOLD, alone.score)
                          = TemplateResult(ret.img, call.max_val, call.max_loc).passed

C29_Witness ==
    /\ Returned("template")
    /\ ret.ok
    /\ call.ref = [w |-> 49, h |-> 22]
    /\ call.scr = [w |-> 15, h |-> 8]
    /\ call.max_val = Q(1, 1)
    /\ ret.tl # <<0, 0>>
    /\ template_match(call.ref, call.scr, call.max_val, call.max_loc).bottom_right = ret.br
    /\ template_match(call.ref, call.scr, call.max_val, call.max_loc).shape # <<22, 49>>

(***************************************************************************)
(* C30: every method name main puts into a result is a key of the order    *)
(* table, with a rank of its own, so the fallback key 99 is never used and *)
(* the sort keys (-score, rank) of any two results differ: best is the one *)
(* candidate whose key is below every other's, whatever the position of    *)
(* the results in the list.                                                *)
(***************************************************************************)
OrderKeys == {"resize_ssim", "exact", "template", "orb", "phash"}

C30_SortKeysDistinct ==
    /\ \A i \in 1 .. Len(results) :
          /\ results[i].method \in OrderKeys
          /\ order(results[i].method) # 99
    /\ \A i \in 1 .. Len(results), j \in 1 .. Len(results) :
          i # j =>
              /\ order(results[i].method) # order(results[j].method)
              /\ SortKeyLess(results[i], results[j]) \/ SortKeyLess(results[j], results[i])
    /\ Done =>
          /\ \A i \in Candidates :
                Entries[i].method # summary.best.method => SortKeyLess(summary.best, Entries[i])
          /\ Sorted(Reverse(Pool(results)))[1] = Sorted(Pool(results))[1]

C30_Witness ==
    /\ Done
    /\ summary.best.method = "orb"
    /\ \E i \in Candidates :
          /\ Entries[i].method = "phash"
          /\ QEq(Entries[i].score, summary.best.score)
    /\ order(summary.best.method) = 3

====
